---- MODULE Spec2Model ----
(***************************************************************************)
(* A model of the shopify-reviews-scraper pipeline: the checkpoint store   *)
(* and retry helper of utils.js, the per-app pagination and the multi-app  *)
(* orchestration of scrapeReviews.js, main of index.js and the discovery   *)
(* of discoverApps.js.                                                      *)
(***************************************************************************)
EXTENDS Integers, Sequences, FiniteSets, TLC

VARIABLES
    rt,      \* the running retry() call: attempt counter, waits taken, outcome
    ap,      \* the running scrapeAppReviews() call: page cursor, records so far
    remote,  \* the remote review pages of every app (fixed during a behaviour)
    run,     \* the node process: main() and scrapeAllReviews() position and locals
    disk,    \* the files under data/
    hist,    \* history of the runs (what was fetched, what had completed)
    ld,      \* a loadCheckpoint() call on one checkpoint file
    dv,      \* the running discoverApps() call and the remote listing
    dl       \* a delay() call: its bounds, the random draw, the time it sleeps

vars == <<rt, ap, remote, run, disk, hist, ld, dv, dl>>

Null == "null"
Undefined == "undefined"

\* ------------------------------------------------------------------------
\* JSON text.  A file's text is a sequence of tokens; the program only ever
\* writes arrays, so the grammar needed is  [ item (, item)* ]  or  [ ].
\* ------------------------------------------------------------------------
LB == <<"[">>
RB == <<"]">>
COMMA == <<",">>

IsItem(tok) == Len(tok) >= 2

EncStr(s) == <<"s", s>>
DecStr(tok) == tok[2]
EncRec(r) == <<"r", r[1], r[2], r[3]>>
DecRec(tok) == <<tok[2], tok[3], tok[4]>>
EncApp(s) == <<"o", s>>
DecApp(tok) == tok[2]

RECURSIVE JoinItems(_)
JoinItems(items) ==
    IF items = <<>> THEN <<>>
    ELSE IF Len(items) = 1 THEN <<items[1]>>
    ELSE <<items[1], COMMA>> \o JoinItems(Tail(items))

\* JSON.stringify(array, null, 2)
JSONstringify(items) == <<LB>> \o JoinItems(items) \o <<RB>>

ParseFail == [ok |-> FALSE, val |-> <<>>]

RECURSIVE ParseItems(_)
ParseItems(toks) ==
    IF toks = <<>> THEN ParseFail
    ELSE IF ~IsItem(toks[1]) THEN ParseFail
    ELSE IF Len(toks) = 1 THEN [ok |-> TRUE, val |-> <<toks[1]>>]
    ELSE IF toks[2] # COMMA THEN ParseFail
    ELSE LET rest == ParseItems(SubSeq(toks, 3, Len(toks)))
         IN  IF rest.ok THEN [ok |-> TRUE, val |-> <<toks[1]>> \o rest.val]
             ELSE ParseFail

\* JSON.parse(text): the array's items, or a SyntaxError (ok = FALSE)
JSONparse(toks) ==
    IF Len(toks) < 2 THEN ParseFail
    ELSE IF toks[1] # LB \/ toks[Len(toks)] # RB THEN ParseFail
    ELSE IF Len(toks) = 2 THEN [ok |-> TRUE, val |-> <<>>]
    ELSE ParseItems(SubSeq(toks, 2, Len(toks) - 1))

MapSeq(Op(_), s) == [i \in 1..Len(s) |-> Op(s[i])]

SeqToSet(s) == {s[i] : i \in 1..Len(s)}

\* ------------------------------------------------------------------------
\* The file system under data/
\* ------------------------------------------------------------------------
Absent == [exists |-> FALSE, text |-> <<>>]
FileOf(toks) == [exists |-> TRUE, text |-> toks]

loadCheckpointUnguarded(file, defaultValue) ==
    LET p == JSONparse(file.text)
    IN  IF file.exists /\ p.ok THEN [raised |-> FALSE, value |-> p.val]
        ELSE [raised |-> TRUE, value |-> <<>>]

\* loadCheckpoint(filename, defaultValue): the value returned, or the
\* SyntaxError of JSON.parse raised to the caller
loadCheckpoint(file, defaultValue) ==
    IF file.exists
    THEN LET p == JSONparse(file.text)
         IN  IF p.ok THEN [raised |-> FALSE, value |-> p.val]
             ELSE [raised |-> TRUE, value |-> <<>>]
    ELSE [raised |-> FALSE, value |-> defaultValue]

\* saveCheckpoint(filename, data) / saveAppReviews(slug, reviews): the file written
saveCheckpoint(items) == FileOf(JSONstringify(items))

\* ------------------------------------------------------------------------
\* delay(minMs = 3000, maxMs = 5000)
\* ------------------------------------------------------------------------
DlIdle == [pc |-> "idle", minMs |-> 0, maxMs |-> 0, rand |-> <<0, 1>>, ms |-> 0]

delayMsRounded(minMs, maxMs, r) ==
    ((2 * r[1] * (maxMs - minMs + 1) + r[2]) \div (2 * r[2])) + minMs

\* Math.floor(Math.random() * (maxMs - minMs + 1)) + minMs, the value of
\* Math.random() being r[1] / r[2] with 0 <= r[1] < r[2]
delayMs(minMs, maxMs, r) == ((r[1] * (maxMs - minMs + 1)) \div r[2]) + minMs

\* the call: ms is drawn and the timer set
DelayCall(minMs, maxMs, r) ==
    /\ dl.pc = "idle"
    /\ dl' = [pc |-> "sleeping", minMs |-> minMs, maxMs |-> maxMs, rand |-> r,
              ms |-> delayMs(minMs, maxMs, r)]
    /\ UNCHANGED <<rt, ap, remote, run, disk, hist, ld, dv>>

\* setTimeout(resolve, ms) fires
DelayFire ==
    /\ dl.pc = "sleeping"
    /\ dl' = [dl EXCEPT !.pc = "resolved"]
    /\ UNCHANGED <<rt, ap, remote, run, disk, hist, ld, dv>>

\* the caller goes on
DelayReturn ==
    /\ dl.pc = "resolved"
    /\ dl' = DlIdle
    /\ UNCHANGED <<rt, ap, remote, run, disk, hist, ld, dv>>

\* ------------------------------------------------------------------------
\* retry(fn, maxRetries = 3, baseDelayMs = 5000)
\* ------------------------------------------------------------------------
DefaultMaxRetries == 3
DefaultBaseDelayMs == 5000

RECURSIVE Pow2(_)
Pow2(n) == IF n <= 0 THEN 1 ELSE 2 * Pow2(n - 1)

BackoffMsLinear(baseDelayMs, attempt) == baseDelayMs * attempt

\* waitMs = baseDelayMs * Math.pow(2, attempt - 1)
BackoffMs(baseDelayMs, attempt) == baseDelayMs * Pow2(attempt - 1)

RtIdle ==
    [state |-> "idle", attempt |-> 0, maxRetries |-> 0, baseDelayMs |-> 0,
     calls |-> 0, waits |-> <<>>, errs |-> <<>>, result |-> Null, thrown |-> Null]

\* entering retry(): attempt = 1, the loop is entered when attempt <= maxRetries
RetryEnter(maxRetries, baseDelayMs) ==
    [RtIdle EXCEPT !.state = IF 1 <= maxRetries THEN "calling" ELSE "returned",
                   !.attempt = 1, !.maxRetries = maxRetries,
                   !.baseDelayMs = baseDelayMs, !.result = Undefined]

\* attempt === maxRetries
LastAttempt(r) == r.attempt = r.maxRetries

RetryFnOkLost(v) ==
    /\ rt.state = "calling"
    /\ rt' = [rt EXCEPT !.state = "returned", !.calls = @ + 1]

\* return await fn()   -- fn resolved with v
RetryFnOk(v) ==
    /\ rt.state = "calling"
    /\ rt' = [rt EXCEPT !.state = "returned", !.calls = @ + 1, !.result = v]

\* catch (err)         -- fn rejected with err
RetryFnFail(err) ==
    /\ rt.state = "calling"
    /\ IF LastAttempt(rt)
       THEN rt' = [rt EXCEPT !.state = "thrown", !.calls = @ + 1,
                             !.errs = Append(@, err), !.thrown = err]
       ELSE rt' = [rt EXCEPT !.state = "waiting", !.calls = @ + 1,
                             !.errs = Append(@, err),
                             !.waits = Append(@, BackoffMs(rt.baseDelayMs, rt.attempt))]

\* the setTimeout of the backoff fires; attempt++ and the loop goes round
RetryWake ==
    /\ rt.state = "waiting"
    /\ rt' = [rt EXCEPT !.attempt = @ + 1,
                        !.state = IF rt.attempt + 1 <= rt.maxRetries
                                  THEN "calling" ELSE "returned"]

\* ------------------------------------------------------------------------
\* The remote source: the review pages of one app
\* ------------------------------------------------------------------------
Slugs == {"a", "b", "c"}

None == <<>>
Some(n) == <<n>>

\* PAGINATION.reviewsPerPage
reviewsPerPage == 10
\* the page cap used when no total count is read
FallbackMaxPages == 500

BatchSize(cfg, p) == IF p \in 1..Len(cfg.sizes) THEN cfg.sizes[p] ELSE 0

\* extractReviewsFromPage(page, appName, appSlug): one record per review block
extractReviewsFromPage(cfg, slug, p) ==
    [k \in 1..BatchSize(cfg, p) |-> <<slug, p, k>>]

\* page.$('[data-pagination-controls] a[rel="next"]')
nextLink(cfg, p) == p \in cfg.nextOn

\* getTotalReviewCount(page): JSON-LD ratingCount when present and truthy,
\* else the number in the heading, else null
getTotalReviewCount(cfg) ==
    IF cfg.jsonLd # None /\ cfg.jsonLd[1] # 0 THEN cfg.jsonLd ELSE cfg.heading

CeilDivFloor(n, d) == n \div d

\* Math.ceil(n / d) for n >= 0
CeilDiv(n, d) == (n + d - 1) \div d

\* ------------------------------------------------------------------------
\* scrapeAppReviews(browser, app, options)
\* ------------------------------------------------------------------------
ApIdle ==
    [pc |-> "idle", slug |-> Null, pageOpen |-> FALSE, pageNum |-> 0,
     totalCount |-> None, totalPages |-> None, maxPages |-> 0,
     allReviews |-> <<>>, lastNav |-> 0, extracted |-> 0, emptyAt |-> 0,
     nextAsked |-> {}, delays |-> 0]

\* the call: const page = await browser.newPage()
ApCall(slug) == [ApIdle EXCEPT !.pc = "newPage", !.slug = slug]

\* errors page.goto rejects with
NavErrors == {"TimeoutError", "net::ERR"}

ApReturnLeak(a) == [a EXCEPT !.pc = "done"]

\* return allReviews; finally page.close()
ApReturn(a) == [a EXCEPT !.pc = "done", !.pageOpen = FALSE]

ApThrowSwallowed(a) == [a EXCEPT !.pc = "done", !.pageOpen = FALSE]

\* the error of retry() leaves the try block; finally page.close()
ApThrow(a) == [a EXCEPT !.pc = "threw", !.pageOpen = FALSE]

LoopGuardOff(a) == TRUE

\* while (pageNum <= maxPages)
LoopGuard(a) == a.pageNum <= a.maxPages

\* the head of the while loop with pageNum set: leave the loop, navigate to
\* page pageNum (pageNum > 1), or extract the page already rendered
LoopHead(a) ==
    IF ~LoopGuard(a) THEN ApReturn(a)
    ELSE IF a.pageNum > 1 THEN [a EXCEPT !.pc = "goto"]
    ELSE [a EXCEPT !.pc = "extract"]

RtFor(a) ==
    IF a.pc = "goto" THEN RetryEnter(DefaultMaxRetries, DefaultBaseDelayMs) ELSE RtIdle

AppNewPage ==
    /\ ap.pc = "newPage"
    /\ ap' = [ap EXCEPT !.pc = "goto", !.pageOpen = TRUE]
    /\ rt' = RetryEnter(DefaultMaxRetries, DefaultBaseDelayMs)
    /\ hist' = [hist EXCEPT !.fetched = @ \cup {ap.slug}]
    /\ UNCHANGED <<remote, run, disk, ld, dv, dl>>

AfterGotoNoDelay(a) ==
    [a EXCEPT !.pc = IF a.pageNum = 0 THEN "count" ELSE "extract",
              !.lastNav = IF a.pageNum = 0 THEN 1 ELSE a.pageNum]

\* after the retry() around page.goto: await delay(delayMin, delayMax)
AfterGoto(a) ==
    [a EXCEPT !.pc = "delay", !.lastNav = IF a.pageNum = 0 THEN 1 ELSE a.pageNum]

\* page.goto resolves inside retry()
AppGotoOk ==
    /\ ap.pc = "goto"
    /\ RetryFnOk("nav")
    /\ ap' = AfterGoto(ap)
    /\ UNCHANGED <<remote, run, disk, hist, ld, dv, dl>>

\* page.goto rejects inside retry(): back off, or give up on the last attempt
AppGotoFail ==
    /\ ap.pc = "goto"
    /\ \E err \in NavErrors : RetryFnFail(err)
    /\ ap' = IF rt'.state = "thrown" THEN ApThrow(ap) ELSE ap
    /\ UNCHANGED <<remote, run, disk, hist, ld, dv, dl>>

AppGotoWake ==
    /\ ap.pc = "goto"
    /\ RetryWake
    /\ UNCHANGED <<ap, remote, run, disk, hist, ld, dv, dl>>

\* await delay(delayMin, delayMax) after a navigation
AppDelay ==
    /\ ap.pc = "delay"
    /\ ap' = [ap EXCEPT !.pc = IF ap.pageNum = 0 THEN "count" ELSE "extract",
                        !.delays = @ + 1]
    /\ rt' = RtIdle
    /\ UNCHANGED <<remote, run, disk, hist, ld, dv, dl>>

TotalPagesOf(totalCount) ==
    IF totalCount # None THEN Some(CeilDiv(totalCount[1], reviewsPerPage)) ELSE None

\* totalCount, totalPages, maxPages, allReviews = [], pageNum = 1
AppCount ==
    /\ ap.pc = "count"
    /\ LET totalCount == getTotalReviewCount(remote[ap.slug])
           totalPages == TotalPagesOf(totalCount)
           maxPages == IF totalPages # None THEN totalPages[1] ELSE FallbackMaxPages
       IN  ap' = LoopHead([ap EXCEPT !.totalCount = totalCount,
                                     !.totalPages = totalPages,
                                     !.maxPages = maxPages,
                                     !.allReviews = <<>>, !.pageNum = 1])
    /\ UNCHANGED <<rt, remote, run, disk, hist, ld, dv, dl>>

\* totalPages != null && pageNum >= totalPages
CountReached(a) == a.totalPages # None /\ a.pageNum >= a.totalPages[1]

EmptyBatchIgnored(batch) == FALSE

\* batch.length === 0
EmptyBatch(batch) == Len(batch) = 0

\* extract the rendered page, append, then the first two stop conditions
AppExtract ==
    /\ ap.pc = "extract"
    /\ LET batch == extractReviewsFromPage(remote[ap.slug], ap.slug, ap.pageNum)
           a1 == [ap EXCEPT !.allReviews = @ \o batch, !.extracted = @ + 1,
                            !.emptyAt = IF Len(batch) = 0 THEN ap.pageNum ELSE @]
       IN  ap' = IF EmptyBatch(batch) THEN ApReturn(a1)
                 ELSE IF CountReached(a1) THEN ApReturn(a1)
                 ELSE [a1 EXCEPT !.pc = "next"]
    /\ UNCHANGED <<rt, remote, run, disk, hist, ld, dv, dl>>

\* const nextLink = await page.$(...); if (!nextLink) break; pageNum++
AppNextLink ==
    /\ ap.pc = "next"
    /\ LET a1 == [ap EXCEPT !.nextAsked = @ \cup {ap.pageNum}]
       IN  /\ ap' = IF ~nextLink(remote[ap.slug], ap.pageNum) THEN ApReturn(a1)
                    ELSE LoopHead([a1 EXCEPT !.pageNum = @ + 1])
           /\ rt' = RtFor(ap')
    /\ UNCHANGED <<remote, run, disk, hist, ld, dv, dl>>

AppStep ==
    \/ AppNewPage
    \/ AppGotoOk
    \/ AppGotoFail
    \/ AppGotoWake
    \/ AppDelay
    \/ AppCount
    \/ AppExtract
    \/ AppNextLink

\* ------------------------------------------------------------------------
\* main() of index.js and scrapeAllReviews(apps, options)
\* ------------------------------------------------------------------------
NoFiles == [s \in Slugs |-> Absent]

\* the in-memory Map bySlug, in insertion order: <<slug, reviews>> pairs
MapHas(m, k) == \E j \in 1..Len(m) : m[j][1] = k

MapSetMoveToEnd(m, k, v) ==
    LET Other(e) == e[1] # k IN Append(SelectSeq(m, Other), <<k, v>>)

MapSetAppend(m, k, v) == Append(m, <<k, v>>)

\* Map.prototype.set: an existing key keeps its place and gets the new value
MapSet(m, k, v) ==
    IF MapHas(m, k)
    THEN [j \in 1..Len(m) |-> IF m[j][1] = k THEN <<k, v>> ELSE m[j]]
    ELSE Append(m, <<k, v>>)

MapGet(m, k) == LET j == CHOOSE j \in 1..Len(m) : m[j][1] = k IN m[j][2]

GroupBySlugNone(recs, m) == m

\* allReviews.forEach(r => bySlug.get(r.app_slug).push(r))
RECURSIVE GroupBySlug(_, _)
GroupBySlug(recs, m) ==
    IF recs = <<>> THEN m
    ELSE LET r == Head(recs)
             cur == IF MapHas(m, r[1]) THEN MapGet(m, r[1]) ELSE <<>>
         IN  GroupBySlug(Tail(recs), MapSet(m, r[1], Append(cur, r)))

\* const flat = []; bySlug.forEach((arr) => flat.push(...arr))
RECURSIVE Flatten(_)
Flatten(m) == IF m = <<>> THEN <<>> ELSE Head(m)[2] \o Flatten(Tail(m))

SetAddDropped(s, x) == s

\* Set.prototype.add on the insertion-ordered scrapedSet
SetAdd(s, x) == IF x \in SeqToSet(s) THEN s ELSE Append(s, x)

FilterSeq(s, Keep(_)) ==
    LET F[i \in 0..Len(s)] ==
            IF i = 0 THEN <<>>
            ELSE IF Keep(s[i]) THEN Append(F[i - 1], s[i]) ELSE F[i - 1]
    IN  F[Len(s)]

ToProcessAll(apps, scrapedSet) == apps

\* apps.filter((a) => !scrapedSet.has(a.slug))      (startFromSlug is null)
ToProcess(apps, scrapedSet) ==
    LET Keep(slug) == slug \notin SeqToSet(scrapedSet) IN FilterSeq(apps, Keep)

\* startFromSlug ? apps.filter((a) => a.slug === startFromSlug ||
\*                                       !scrapedSet.has(a.slug))
\*               : apps.filter((a) => !scrapedSet.has(a.slug))
ToProcessFrom(apps, scrapedSet, startFromSlug) ==
    IF startFromSlug # Null
    THEN LET Keep(slug) == slug = startFromSlug \/ slug \notin SeqToSet(scrapedSet)
         IN  FilterSeq(apps, Keep)
    ELSE ToProcess(apps, scrapedSet)

FastPathNever(apps, toProcess) == FALSE

\* toProcess.length === 0 && apps.length > 0
FastPath(apps, toProcess) == Len(toProcess) = 0 /\ Len(apps) > 0

HeaderRow == <<"header">>

\* writeAllReviewsCsv(allReviews): the header and one row per record
writeAllReviewsCsv(allReviews) == FileOf(<<HeaderRow>> \o MapSeq(EncRec, allReviews))

\* writeAllReviewsJson(allReviews)
writeAllReviewsJson(allReviews) == FileOf(JSONstringify(MapSeq(EncRec, allReviews)))

WriteOutputsAlways(allReviews) == TRUE

\* if (allReviews.length > 0)
WriteOutputs(allReviews) == Len(allReviews) > 0

RunOff ==
    [pc |-> "off", resume |-> FALSE, reviewsOnly |-> FALSE, discoverOnly |-> FALSE,
     apps |-> <<>>, startFromSlug |-> Null, scrapedSet |-> <<>>,
     toProcess |-> <<>>, i |-> 0, bySlug |-> <<>>, reviews |-> <<>>,
     allReviews |-> <<>>, browserOpen |-> FALSE, exit |-> 0]

HistInit ==
    [runs |-> 0, fetched |-> {}, scrapedAtStart |-> {}, combinedAtStart |-> Absent,
     csvAtStart |-> Absent, prevDone |-> FALSE, allResume |-> TRUE, kills |-> 0,
     completed |-> [s \in Slugs |-> None],
     returned |-> [s \in Slugs |-> None], processed |-> {}]

LdIdle ==
    [pc |-> "idle", file |-> Absent, intact |-> None, defaultValue |-> <<>>,
     result |-> <<>>]

DvIdle ==
    [pc |-> "idle", resume |-> FALSE, listing |-> <<>>, nextOn |-> {}, cur |-> 0,
     browserOpen |-> FALSE, result |-> <<>>, ran |-> FALSE]

\* what a checkpoint file holds, read the way the program reads it
StoredStrs(file) == MapSeq(DecStr, loadCheckpoint(file, <<>>).value)
StoredRecs(file) == MapSeq(DecRec, loadCheckpoint(file, <<>>).value)

MaxRuns == 3

Stopped == run.pc \in {"off", "done", "exit1", "killed"}

\* node src/index.js --reviews [--no-resume]
StartRun ==
    /\ Stopped
    /\ hist.runs < MaxRuns
    /\ \E resume \in BOOLEAN :
        /\ run' = [RunOff EXCEPT !.pc = "main", !.resume = resume,
                                 !.reviewsOnly = TRUE]
        /\ hist' = [hist EXCEPT !.runs = @ + 1, !.fetched = {},
                                !.scrapedAtStart = SeqToSet(StoredStrs(disk.scraped)),
                                !.combinedAtStart = disk.combined,
                                !.csvAtStart = disk.csv,
                                !.prevDone = (run.pc = "done"),
                                !.allResume = @ /\ (hist.runs = 0 \/ resume),
                                !.returned = [s \in Slugs |-> None],
                                !.processed = {}]
    /\ ap' = ApIdle
    /\ rt' = RtIdle
    /\ UNCHANGED <<remote, disk, ld, dv, dl>>

\* the process is killed (SIGKILL, power loss): memory is lost, files stay
Kill ==
    /\ ~Stopped
    /\ run' = [RunOff EXCEPT !.pc = "killed"]
    /\ ap' = ApIdle
    /\ rt' = RtIdle
    /\ hist' = [hist EXCEPT !.kills = 1,
                            !.completed = IF ap.pc = "done"
                                          THEN [@ EXCEPT ![ap.slug] = Some(ap.allReviews)]
                                          ELSE @]
    /\ UNCHANGED <<remote, disk, ld, dv, dl>>

\* fs.writeFileSync opens the file with O_TRUNC before it writes: a kill in
\* between leaves the file being written empty
Truncated == FileOf(<<>>)

\* the process is killed inside the writeFileSync it has reached
KillInWrite ==
    /\ \/ /\ run.pc = "app"
          /\ ap.pc = "done"
          /\ disk' = [disk EXCEPT !.scraped = Truncated]
       \/ /\ run.pc = "save2"
          /\ disk' = [disk EXCEPT !.reviews[run.toProcess[run.i]] = Truncated]
       \/ /\ run.pc = "save3"
          /\ disk' = [disk EXCEPT !.combined = Truncated]
       \/ /\ run.pc = "json"
          /\ disk' = [disk EXCEPT !.combined = Truncated]
    /\ run' = [RunOff EXCEPT !.pc = "killed"]
    /\ ap' = ApIdle
    /\ rt' = RtIdle
    /\ hist' = [hist EXCEPT !.kills = 1,
                            !.completed = IF ap.pc = "done"
                                          THEN [@ EXCEPT ![ap.slug] = Some(ap.allReviews)]
                                          ELSE @]
    /\ UNCHANGED <<remote, ld, dv, dl>>

NoAppsIgnored(apps) == FALSE

\* apps.length === 0
NoApps(apps) == Len(apps) = 0

\* main: apps = loadCheckpoint('apps.json', []); without --reviews the call of
\* discoverApps; with it, if (apps.length === 0) exit(1)
MainLoadApps ==
    /\ run.pc = "main"
    /\ LET lc == loadCheckpoint(disk.apps, <<>>)
           apps == MapSeq(DecApp, lc.value)
       IN  IF lc.raised
           THEN /\ run' = [run EXCEPT !.pc = "exit1", !.exit = 1]
                /\ dv' = dv
           ELSE IF ~run.reviewsOnly
           THEN /\ run' = [run EXCEPT !.pc = "discover"]
                /\ dv' = [dv EXCEPT !.pc = "start", !.resume = run.resume]
           ELSE /\ run' = IF NoApps(apps)
                          THEN [run EXCEPT !.pc = "exit1", !.exit = 1]
                          ELSE [run EXCEPT !.pc = "sar", !.apps = apps]
                /\ dv' = dv
    /\ UNCHANGED <<rt, ap, remote, disk, hist, ld, dl>>

\* discoverApps returned or threw: exit(1) on an error or on no app, return
\* with --discover, else on to Phase 2
MainDiscovered ==
    /\ run.pc = "discover"
    /\ dv.pc \in {"done", "threw"}
    /\ run' = IF dv.pc = "threw" THEN [run EXCEPT !.pc = "exit1", !.exit = 1]
              ELSE IF NoApps(dv.result) THEN [run EXCEPT !.pc = "exit1", !.exit = 1]
              ELSE IF run.discoverOnly THEN [run EXCEPT !.pc = "done"]
              ELSE [run EXCEPT !.pc = "sar", !.apps = dv.result]
    /\ UNCHANGED <<rt, ap, remote, disk, hist, ld, dv, dl>>

Phase3Skip(r) == [r EXCEPT !.pc = "done"]

\* after scrapeAllReviews returned: Phase 3 writes only a non-empty result
Phase3(r) == [r EXCEPT !.pc = IF WriteOutputs(r.allReviews) THEN "csv" ELSE "done"]

\* scrapeAllReviews up to the launch of the browser
SarBegin ==
    /\ run.pc = "sar"
    /\ LET lc == IF run.resume THEN loadCheckpoint(disk.scraped, <<>>)
                 ELSE [raised |-> FALSE, value |-> <<>>]
           scrapedSet == MapSeq(DecStr, lc.value)
           toProcess == ToProcessFrom(run.apps, scrapedSet, run.startFromSlug)
           all == loadCheckpoint(disk.combined, <<>>)
       IN  run' = IF lc.raised THEN [run EXCEPT !.pc = "exit1", !.exit = 1]
                  ELSE IF FastPath(run.apps, toProcess)
                  THEN IF all.raised THEN [run EXCEPT !.pc = "exit1", !.exit = 1]
                       ELSE Phase3([run EXCEPT !.scrapedSet = scrapedSet,
                                               !.toProcess = toProcess,
                                               !.allReviews = MapSeq(DecRec, all.value)])
                  ELSE [run EXCEPT !.pc = "launch", !.scrapedSet = scrapedSet,
                                   !.toProcess = toProcess]
    /\ UNCHANGED <<rt, ap, remote, disk, hist, ld, dv, dl>>

\* puppeteer.launch, the load of all_reviews.json into bySlug, and the first
\* iteration's call of scrapeAppReviews
SarLaunch ==
    /\ run.pc = "launch"
    /\ LET all == IF run.resume THEN loadCheckpoint(disk.combined, <<>>)
                  ELSE [raised |-> FALSE, value |-> <<>>]
           bySlug == GroupBySlug(MapSeq(DecRec, all.value), <<>>)
       IN  IF all.raised
           THEN /\ run' = [run EXCEPT !.pc = "exit1", !.exit = 1, !.browserOpen = TRUE]
                /\ ap' = ap
           ELSE IF Len(run.toProcess) = 0
           THEN /\ run' = [run EXCEPT !.pc = "close", !.browserOpen = TRUE,
                                      !.bySlug = bySlug, !.i = 1]
                /\ ap' = ap
           ELSE /\ run' = [run EXCEPT !.pc = "app", !.browserOpen = TRUE,
                                      !.bySlug = bySlug, !.i = 1]
                /\ ap' = ApCall(run.toProcess[1])
    /\ UNCHANGED <<rt, remote, disk, hist, ld, dv, dl>>

\* scrapeAppReviews returned: bySlug.set, scrapedSet.add,
\* saveCheckpoint('scraped_app_slugs.json', [...scrapedSet])
SarAppReturned ==
    /\ run.pc = "app"
    /\ ap.pc = "done"
    /\ LET slug == run.toProcess[run.i]
           scrapedSet == SetAdd(run.scrapedSet, slug)
       IN  /\ run' = [run EXCEPT !.pc = "save2", !.reviews = ap.allReviews,
                                 !.bySlug = MapSet(run.bySlug, slug, ap.allReviews),
                                 !.scrapedSet = scrapedSet]
           /\ disk' = [disk EXCEPT !.scraped = saveCheckpoint(MapSeq(EncStr, scrapedSet))]
           /\ hist' = [hist EXCEPT !.completed[slug] = Some(ap.allReviews),
                                   !.returned[slug] = Some(ap.allReviews)]
    /\ ap' = ApIdle
    /\ rt' = RtIdle
    /\ UNCHANGED <<remote, ld, dv, dl>>

\* saveAppReviews(app.slug, reviews)
SarSaveApp ==
    /\ run.pc = "save2"
    /\ disk' = [disk EXCEPT !.reviews[run.toProcess[run.i]] =
                                saveCheckpoint(MapSeq(EncRec, run.reviews))]
    /\ run' = [run EXCEPT !.pc = "save3"]
    /\ UNCHANGED <<rt, ap, remote, hist, ld, dv, dl>>

\* saveCheckpoint('all_reviews.json', flat); then the next iteration's call,
\* or the end of the loop
SarSaveAll ==
    /\ run.pc = "save3"
    /\ disk' = [disk EXCEPT !.combined =
                                saveCheckpoint(MapSeq(EncRec, Flatten(run.bySlug)))]
    /\ hist' = [hist EXCEPT !.processed = @ \cup {run.toProcess[run.i]}]
    /\ IF run.i + 1 <= Len(run.toProcess)
       THEN /\ run' = [run EXCEPT !.pc = "app", !.i = @ + 1]
            /\ ap' = ApCall(run.toProcess[run.i + 1])
       ELSE /\ run' = [run EXCEPT !.pc = "close", !.i = @ + 1]
            /\ ap' = ap
    /\ UNCHANGED <<rt, remote, ld, dv, dl>>

\* return flat; finally browser.close(); back in main
SarClose ==
    /\ run.pc = "close"
    /\ run' = Phase3([run EXCEPT !.browserOpen = FALSE,
                                 !.allReviews = Flatten(run.bySlug)])
    /\ UNCHANGED <<rt, ap, remote, disk, hist, ld, dv, dl>>

\* scrapeAppReviews threw: finally browser.close(); main().catch exits 1
SarAppThrew ==
    /\ run.pc = "app"
    /\ ap.pc = "threw"
    /\ run' = [run EXCEPT !.pc = "exit1", !.exit = 1, !.browserOpen = FALSE]
    /\ UNCHANGED <<rt, ap, remote, disk, hist, ld, dv, dl>>

\* await writeAllReviewsCsv(allReviews)
MainCsv ==
    /\ run.pc = "csv"
    /\ disk' = [disk EXCEPT !.csv = writeAllReviewsCsv(run.allReviews)]
    /\ run' = [run EXCEPT !.pc = "json"]
    /\ UNCHANGED <<rt, ap, remote, hist, ld, dv, dl>>

\* writeAllReviewsJson(allReviews); log('Done.')
MainJson ==
    /\ run.pc = "json"
    /\ disk' = [disk EXCEPT !.combined = writeAllReviewsJson(run.allReviews)]
    /\ run' = [run EXCEPT !.pc = "done"]
    /\ UNCHANGED <<rt, ap, remote, hist, ld, dv, dl>>

\* ------------------------------------------------------------------------
\* Specifications
\* ------------------------------------------------------------------------
Cfg(jsonLd, heading, sizes, nextOn) ==
    [jsonLd |-> jsonLd, heading |-> heading, sizes |-> sizes, nextOn |-> nextOn]

\* two reviews on page 1 and a next link to an empty page 2
CfgTwo == Cfg(None, None, <<2>>, {1})
\* one review, counted, no next link
CfgOne == Cfg(Some(1), None, <<1>>, {})
\* no review at all
CfgEmpty == Cfg(None, None, <<>>, {})

RunRemotes ==
    {[s \in Slugs |-> CfgTwo], [s \in Slugs |-> CfgEmpty],
     [s \in Slugs |-> IF s = "a" THEN CfgTwo ELSE IF s = "b" THEN CfgOne ELSE CfgEmpty]}

RunAppLists == {<<>>, <<"a">>, <<"a", "b", "c">>}

DiskInit(apps) ==
    [apps |-> saveCheckpoint(MapSeq(EncApp, apps)), scraped |-> Absent,
     combined |-> Absent, reviews |-> NoFiles, csv |-> Absent]

RunInit ==
    /\ rt = RtIdle
    /\ ap = ApIdle
    /\ remote \in RunRemotes
    /\ run = RunOff
    /\ \E apps \in RunAppLists : disk = DiskInit(apps)
    /\ hist = HistInit
    /\ ld = LdIdle
    /\ dl = DlIdle
    /\ dv = DvIdle

RunNext ==
    \/ StartRun
    \/ Kill
    \/ KillInWrite
    \/ MainLoadApps
    \/ SarBegin
    \/ SarLaunch
    \/ AppStep
    \/ SarAppReturned
    \/ SarSaveApp
    \/ SarSaveAll
    \/ SarClose
    \/ SarAppThrew
    \/ MainCsv
    \/ MainJson

SpecRun == RunInit /\ [][RunNext]_vars

\* --- one scrapeAppReviews call against every small remote app ------------
MaxRemotePages == 3

SeqsUpTo(S, n) == UNION {[1..k -> S] : k \in 0..n}

\* <<JSON-LD ratingCount, heading count>> as found on the first page
CountSources ==
    {<<None, None>>, <<None, Some(0)>>, <<None, Some(1)>>, <<None, Some(30)>>,
     <<Some(0), Some(11)>>, <<Some(25), None>>, <<Some(25), Some(1)>>}

AppRemotes ==
    {Cfg(c[1], c[2], sizes, nextOn) :
        c \in CountSources, sizes \in SeqsUpTo({0, 2}, MaxRemotePages),
        nextOn \in SUBSET (1..MaxRemotePages)}

AppInit ==
    /\ rt = RtIdle
    /\ ap = ApCall("a")
    /\ \E cfg \in AppRemotes : remote = [s \in Slugs |-> cfg]
    /\ run = RunOff
    /\ disk = DiskInit(<<"a">>)
    /\ hist = HistInit
    /\ ld = LdIdle
    /\ dl = DlIdle
    /\ dv = DvIdle

SpecApp == AppInit /\ [][AppStep]_vars

\* --- one scrapeAppReviews call on apps that show no total count -----------
\* more pages than the page cap, each with one review and a next link
EndlessPages == FallbackMaxPages + 2

CfgEndless == Cfg(None, None, [p \in 1..EndlessPages |-> 1], 1..EndlessPages)

\* apps without JSON-LD count and without a count in the heading
LongRemotes ==
    {CfgEndless, CfgTwo, CfgEmpty, Cfg(None, None, <<2, 2>>, {1}),
     Cfg(None, None, <<2, 2>>, {1, 2})}

LongInit ==
    /\ rt = RtIdle
    /\ ap = ApCall("a")
    /\ \E cfg \in LongRemotes : remote = [s \in Slugs |-> cfg]
    /\ run = RunOff
    /\ disk = DiskInit(<<"a">>)
    /\ hist = HistInit
    /\ ld = LdIdle
    /\ dl = DlIdle
    /\ dv = DvIdle

\* the event loop runs every settled promise and every expired timer, and
\* page.goto settles within its timeout
SpecLong == LongInit /\ [][AppStep]_vars /\ WF_vars(AppStep)

\* --- retry() alone, against an operation that fails or succeeds at will ---
MaxAttempts == 4
BaseDelays == {1000, 5000}
FnResults == {"r1", "r2"}

RetryCall ==
    /\ rt.state = "idle"
    /\ \E n \in 1..MaxAttempts, b \in BaseDelays : rt' = RetryEnter(n, b)
    /\ UNCHANGED <<ap, remote, run, disk, hist, ld, dv, dl>>

RetryOk ==
    /\ \E v \in FnResults : RetryFnOk(v)
    /\ UNCHANGED <<ap, remote, run, disk, hist, ld, dv, dl>>

RetryFail ==
    /\ \E err \in NavErrors : RetryFnFail(err)
    /\ UNCHANGED <<ap, remote, run, disk, hist, ld, dv, dl>>

RetryWait ==
    /\ RetryWake
    /\ UNCHANGED <<ap, remote, run, disk, hist, ld, dv, dl>>

RetryInit ==
    /\ rt = RtIdle
    /\ ap = ApIdle
    /\ remote = [s \in Slugs |-> CfgEmpty]
    /\ run = RunOff
    /\ disk = DiskInit(<<>>)
    /\ hist = HistInit
    /\ ld = LdIdle
    /\ dl = DlIdle
    /\ dv = DvIdle

RetryNext == RetryCall \/ RetryOk \/ RetryFail \/ RetryWait

SpecRetry == RetryInit /\ [][RetryNext]_vars

\* ------------------------------------------------------------------------
\* discoverApps(options) of discoverApps.js and the remote listing
\* ------------------------------------------------------------------------
\* SEARCH.maxPages and SEARCH.nextPageLink: config.js defines neither key
SEARCH_maxPages == None
SEARCH_nextPageLink == None

\* x <= y in JavaScript with y possibly undefined: false when it is
JsLe(x, y) == y # None /\ x <= y[1]

\* extractAppsFromPage(page).apps for the rendered listing page p
extractAppsFromPage(listing, p) == IF p \in 1..Len(listing) THEN listing[p] ELSE <<>>

\* document.querySelector(SEARCH.nextPageLink): an undefined selector matches
\* nothing, a defined one finds the next link of page p where there is one
nextPageUrl(nextOn, p) == SEARCH_nextPageLink # None /\ p \in nextOn

\* for (const app of batch) if (!seen.has(app.slug)) allApps.push(app)
RECURSIVE MergeNew(_, _)
MergeNew(allApps, batch) ==
    IF batch = <<>> THEN allApps
    ELSE IF Head(batch) \in SeqToSet(allApps) THEN MergeNew(allApps, Tail(batch))
    ELSE MergeNew(Append(allApps, Head(batch)), Tail(batch))

\* collectAllApps(page, baseUrl) from the head of its while loop, every
\* navigation to a next page succeeding: the apps collected and the page left
\* rendered
RECURSIVE collectAllApps(_, _, _, _)
collectAllApps(listing, nextOn, pageNum, allApps) ==
    IF ~JsLe(pageNum, SEARCH_maxPages) THEN [apps |-> allApps, cur |-> pageNum]
    ELSE LET merged == MergeNew(allApps, extractAppsFromPage(listing, pageNum))
             newCount == Len(merged) - Len(allApps)
         IN  IF newCount = 0 /\ pageNum > 1 THEN [apps |-> merged, cur |-> pageNum]
             ELSE IF ~nextPageUrl(nextOn, pageNum) THEN [apps |-> merged, cur |-> pageNum]
             ELSE collectAllApps(listing, nextOn, pageNum + 1, merged)

\* const unique = []; for (const a of apps) if (!bySlug.has(a.slug)) unique.push(a)
UniqueBySlug(apps) == MergeNew(<<>>, apps)

CheckpointCompleteNever(checkpoint) == FALSE

\* checkpoint && Array.isArray(checkpoint) && checkpoint.length > 0
\* (a null checkpoint is the empty sequence here)
CheckpointComplete(checkpoint) == Len(checkpoint) > 0

\* checkpoint = resume ? loadCheckpoint('apps.json') : null, and the return of
\* a non-empty checkpoint
DiscStart ==
    /\ dv.pc = "start"
    /\ LET lc == IF dv.resume THEN loadCheckpoint(disk.apps, <<>>)
                 ELSE [raised |-> FALSE, value |-> <<>>]
       IN  dv' = IF lc.raised THEN [dv EXCEPT !.pc = "threw"]
                 ELSE IF CheckpointComplete(lc.value)
                 THEN [dv EXCEPT !.pc = "done", !.result = MapSeq(DecApp, lc.value)]
                 ELSE [dv EXCEPT !.pc = "launch"]
    /\ UNCHANGED <<rt, ap, remote, run, disk, hist, ld, dl>>

\* puppeteer.launch, browser.newPage, and the first page.goto inside retry()
DiscLaunch ==
    /\ dv.pc = "launch"
    /\ dv' = [dv EXCEPT !.pc = "goto", !.browserOpen = TRUE, !.ran = TRUE]
    /\ rt' = RetryEnter(DefaultMaxRetries, DefaultBaseDelayMs)
    /\ UNCHANGED <<ap, remote, run, disk, hist, ld, dl>>

DiscGotoOk ==
    /\ dv.pc = "goto"
    /\ RetryFnOk("nav")
    /\ dv' = [dv EXCEPT !.pc = "delay", !.cur = 1]
    /\ UNCHANGED <<ap, remote, run, disk, hist, ld, dl>>

\* retries exhausted: finally browser.close(), the error leaves discoverApps
DiscGotoFail ==
    /\ dv.pc = "goto"
    /\ \E err \in NavErrors : RetryFnFail(err)
    /\ dv' = IF rt'.state = "thrown"
             THEN [dv EXCEPT !.pc = "threw", !.browserOpen = FALSE]
             ELSE dv
    /\ UNCHANGED <<ap, remote, run, disk, hist, ld, dl>>

DiscGotoWake ==
    /\ dv.pc = "goto"
    /\ RetryWake
    /\ UNCHANGED <<dv, ap, remote, run, disk, hist, ld, dl>>

\* await delay(...); await page.waitForSelector(...).catch(() => {})
DiscDelay ==
    /\ dv.pc = "delay"
    /\ dv' = [dv EXCEPT !.pc = "collect"]
    /\ rt' = RtIdle
    /\ UNCHANGED <<ap, remote, run, disk, hist, ld, dl>>

\* collectAllApps, the single-page fallback, the deduplication, the save of
\* apps.json and the return; finally browser.close()
DiscCollect ==
    /\ dv.pc = "collect"
    /\ LET got == collectAllApps(dv.listing, dv.nextOn, 1, <<>>)
           cur == got.cur
           apps == IF Len(got.apps) = 0
                   THEN extractAppsFromPage(dv.listing, cur) ELSE got.apps
           unique == UniqueBySlug(apps)
       IN  /\ dv' = [dv EXCEPT !.pc = "done", !.result = unique, !.cur = cur,
                               !.browserOpen = FALSE]
           /\ disk' = [disk EXCEPT !.apps = saveCheckpoint(MapSeq(EncApp, unique))]
    /\ UNCHANGED <<rt, ap, remote, run, hist, ld, dl>>

\* the process is killed while discoverApps has its browser open, outside
\* any write
DiscKill ==
    /\ dv.pc \in {"goto", "delay", "collect"}
    /\ dv' = [dv EXCEPT !.pc = "killed", !.browserOpen = FALSE]
    /\ rt' = RtIdle
    /\ UNCHANGED <<ap, remote, run, disk, hist, ld, dl>>

\* the process is killed inside fs.writeFileSync of saveCheckpoint('apps.json',
\* unique), after the file was opened and emptied
DiscKillInWrite ==
    /\ dv.pc = "collect"
    /\ dv' = [dv EXCEPT !.pc = "killed", !.browserOpen = FALSE]
    /\ disk' = [disk EXCEPT !.apps = Truncated]
    /\ UNCHANGED <<rt, ap, remote, run, hist, ld, dl>>

\* ------------------------------------------------------------------------
\* loadCheckpoint / saveCheckpoint on one checkpoint file
\* ------------------------------------------------------------------------
\* saveCheckpoint(filename, items) ran to its end
LdSave(items) ==
    /\ ld.pc = "idle"
    /\ ld' = [ld EXCEPT !.file = saveCheckpoint(items), !.intact = Some(items)]
    /\ UNCHANGED <<rt, ap, remote, run, disk, hist, dv, dl>>

\* fs.writeFileSync cut short by a kill: the first n tokens reached the file
LdSaveCut(items, n) ==
    /\ ld.pc = "idle"
    /\ n < Len(JSONstringify(items))
    /\ ld' = [ld EXCEPT !.file = FileOf(SubSeq(JSONstringify(items), 1, n)),
                        !.intact = None]
    /\ UNCHANGED <<rt, ap, remote, run, disk, hist, dv, dl>>

\* the file is removed (a fresh data directory)
LdRemove ==
    /\ ld.pc = "idle"
    /\ ld.file.exists
    /\ ld' = [ld EXCEPT !.file = Absent, !.intact = None]
    /\ UNCHANGED <<rt, ap, remote, run, disk, hist, dv, dl>>

\* loadCheckpoint(filename, defaultValue) called on the file
LdLoad(defaultValue) ==
    /\ ld.pc = "idle"
    /\ LET lc == loadCheckpoint(ld.file, defaultValue)
       IN  ld' = [ld EXCEPT !.pc = IF lc.raised THEN "raised" ELSE "returned",
                            !.defaultValue = defaultValue, !.result = lc.value]
    /\ UNCHANGED <<rt, ap, remote, run, disk, hist, dv, dl>>

\* the caller goes on
LdReset ==
    /\ ld.pc # "idle"
    /\ ld' = [ld EXCEPT !.pc = "idle", !.defaultValue = <<>>, !.result = <<>>]
    /\ UNCHANGED <<rt, ap, remote, run, disk, hist, dv, dl>>

\* --- discoverApps against every small listing ---------------------------
MaxListingPages == 2

\* what extractAppsFromPage finds on a listing page: slugs, each once
ListingPages == {<<>>, <<"c">>, <<"a", "b">>, <<"b", "a">>, <<"b", "c">>}

Listings == {l \in SeqsUpTo(ListingPages, MaxListingPages) : Len(l) >= 1}

AppsCheckpoints ==
    {Absent, Truncated, saveCheckpoint(<<>>), saveCheckpoint(<<EncApp("c")>>)}

DiscInit ==
    /\ rt = RtIdle
    /\ ap = ApIdle
    /\ remote = [s \in Slugs |-> CfgEmpty]
    /\ run = RunOff
    /\ \E f \in AppsCheckpoints : disk = [DiskInit(<<>>) EXCEPT !.apps = f]
    /\ hist = HistInit
    /\ ld = LdIdle
    /\ dl = DlIdle
    /\ \E l \in Listings, n \in SUBSET (1..MaxListingPages), r \in BOOLEAN :
          dv = [DvIdle EXCEPT !.pc = "start", !.resume = r, !.listing = l, !.nextOn = n]

DiscNext ==
    \/ DiscStart
    \/ DiscLaunch
    \/ DiscGotoOk
    \/ DiscGotoFail
    \/ DiscGotoWake
    \/ DiscDelay
    \/ DiscCollect

DiscoverNext ==
    \/ DiscNext
    \/ DiscKill
    \/ DiscKillInWrite

SpecDiscover == DiscInit /\ [][DiscoverNext]_vars

\* --- one run of main() in each mode, from each data directory -------------
\* the records scrapeAppReviews returns for app "a" of CfgTwo
RecsOfA == <<<<"a", 1, 1>>, <<"a", 1, 2>>>>

\* <<scraped_app_slugs.json, all_reviews.json>> as earlier runs leave them:
\* none, both written, a kill between the two writes, a kill inside either
PriorProgress ==
    {<<Absent, Absent>>,
     <<saveCheckpoint(<<EncStr("a")>>), saveCheckpoint(MapSeq(EncRec, RecsOfA))>>,
     <<saveCheckpoint(<<EncStr("a")>>), Absent>>,
     <<saveCheckpoint(<<EncStr("a")>>), Truncated>>,
     <<Truncated, Absent>>,
     <<saveCheckpoint(<<EncStr("a"), EncStr("b")>>),
       saveCheckpoint(MapSeq(EncRec, RecsOfA))>>}

PriorApps == AppsCheckpoints \cup {saveCheckpoint(<<EncApp("a"), EncApp("b")>>)}

MainListings == {<<<<>>>>, <<<<"a", "b">>>>, <<<<"b", "a">>, <<"c">>>>}

MainRemotes ==
    {[s \in Slugs |-> IF s = "a" THEN CfgTwo ELSE IF s = "b" THEN CfgOne ELSE CfgEmpty],
     [s \in Slugs |-> CfgEmpty]}

MainInit ==
    /\ rt = RtIdle
    /\ ap = ApIdle
    /\ remote \in MainRemotes
    /\ \E resume \in BOOLEAN, reviewsOnly \in BOOLEAN, discoverOnly \in BOOLEAN :
          run = [RunOff EXCEPT !.pc = "main", !.resume = resume,
                               !.reviewsOnly = reviewsOnly,
                               !.discoverOnly = discoverOnly]
    /\ \E f \in PriorApps, g \in PriorProgress :
          disk = [DiskInit(<<>>) EXCEPT !.apps = f, !.scraped = g[1], !.combined = g[2]]
    /\ hist = [HistInit EXCEPT !.runs = 1,
                               !.scrapedAtStart = SeqToSet(StoredStrs(disk.scraped)),
                               !.combinedAtStart = disk.combined]
    /\ ld = LdIdle
    /\ dl = DlIdle
    /\ \E l \in MainListings, n \in {{}, {1}} :
          dv = [DvIdle EXCEPT !.listing = l, !.nextOn = n]

MainNext ==
    \/ MainLoadApps
    \/ DiscNext
    \/ MainDiscovered
    \/ SarBegin
    \/ SarLaunch
    \/ AppStep
    \/ SarAppReturned
    \/ SarSaveApp
    \/ SarSaveAll
    \/ SarClose
    \/ SarAppThrew
    \/ MainCsv
    \/ MainJson

SpecMain == MainInit /\ [][MainNext]_vars

\* --- one call of scrapeAllReviews(apps, {resume, startFromSlug}) -----------
\* the records scrapeAppReviews returns for app "b" of CfgTwo
RecsOfB == <<<<"b", 1, 1>>, <<"b", 1, 2>>>>

\* <<scraped_app_slugs.json, all_reviews.json>> before the call: as earlier
\* runs leave them, with a's records but no slug list, and with a and b done
SarProgress ==
    PriorProgress \cup
    {<<Absent, saveCheckpoint(MapSeq(EncRec, RecsOfA))>>,
     <<saveCheckpoint(<<EncStr("a"), EncStr("b")>>),
       saveCheckpoint(MapSeq(EncRec, RecsOfA \o RecsOfB))>>}

SarAppLists == {<<"a", "b">>, <<"b", "a", "c">>}

\* every app has one review now, or two, or mixed
SarRemotes ==
    {[s \in Slugs |-> CfgOne], [s \in Slugs |-> CfgTwo],
     [s \in Slugs |-> IF s = "a" THEN CfgTwo ELSE IF s = "b" THEN CfgOne ELSE CfgEmpty]}

SarInit ==
    /\ rt = RtIdle
    /\ ap = ApIdle
    /\ remote \in SarRemotes
    /\ \E resume \in BOOLEAN, apps \in SarAppLists, from \in {Null, "a", "b"} :
          run = [RunOff EXCEPT !.pc = "sar", !.resume = resume, !.apps = apps,
                               !.startFromSlug = from]
    /\ \E g \in SarProgress :
          disk = [DiskInit(<<>>) EXCEPT !.scraped = g[1], !.combined = g[2]]
    /\ hist = [HistInit EXCEPT !.runs = 1,
                               !.scrapedAtStart = SeqToSet(StoredStrs(disk.scraped)),
                               !.combinedAtStart = disk.combined]
    /\ ld = LdIdle
    /\ dl = DlIdle
    /\ dv = DvIdle

SarNext ==
    \/ SarBegin
    \/ SarLaunch
    \/ AppStep
    \/ SarAppReturned
    \/ SarSaveApp
    \/ SarSaveAll
    \/ SarClose
    \/ SarAppThrew

SpecSar == SarInit /\ [][SarNext]_vars

\* --- delay() called with each pair of bounds and each random draw ---------
RandomSteps == 16

\* values of Math.random(): k / RandomSteps, and one just below 1
RandomValues ==
    {<<k, RandomSteps>> : k \in 0..(RandomSteps - 1)} \cup {<<9999, 10000>>}

\* <<minMs, maxMs>>: the default and DELAY of config.js, the scroll pause of
\* collectAllApps, and narrow ranges
DelayRanges == {<<3000, 5000>>, <<1000, 2000>>, <<0, 0>>, <<5, 5>>, <<0, 3>>, <<7, 10>>}

DelayInit ==
    /\ rt = RtIdle
    /\ ap = ApIdle
    /\ remote = [s \in Slugs |-> CfgEmpty]
    /\ run = RunOff
    /\ disk = DiskInit(<<>>)
    /\ hist = HistInit
    /\ ld = LdIdle
    /\ dl = DlIdle
    /\ dv = DvIdle

DelayNext ==
    \/ \E b \in DelayRanges, r \in RandomValues : DelayCall(b[1], b[2], r)
    \/ DelayFire
    \/ DelayReturn

SpecDelay == DelayInit /\ [][DelayNext]_vars

\* --- one checkpoint file written, cut short, removed and loaded ------------
MaxItems == 3

NullValue == <<<<"null">>>>
Defaults == {<<>>, NullValue}
ItemLists == SeqsUpTo({EncStr(x) : x \in Slugs}, MaxItems)

LoadInit ==
    /\ rt = RtIdle
    /\ ap = ApIdle
    /\ remote = [s \in Slugs |-> CfgEmpty]
    /\ run = RunOff
    /\ disk = DiskInit(<<>>)
    /\ hist = HistInit
    /\ ld = LdIdle
    /\ dl = DlIdle
    /\ dv = DvIdle

LoadNext ==
    \/ \E items \in ItemLists : LdSave(items)
    \/ \E items \in ItemLists : \E n \in 0..(2 * MaxItems + 1) : LdSaveCut(items, n)
    \/ LdRemove
    \/ \E d \in Defaults : LdLoad(d)
    \/ LdReset

SpecLoad == LoadInit /\ [][LoadNext]_vars

\* ------------------------------------------------------------------------
\* Properties
\* ------------------------------------------------------------------------
ScrapedOnDisk == SeqToSet(StoredStrs(disk.scraped))
CombinedOnDisk == StoredRecs(disk.combined)
AppsOnDisk == MapSeq(DecApp, loadCheckpoint(disk.apps, <<>>).value)

\* C1: every slug in the persisted scraped_app_slugs.json has its per-app
\* file written and that file's records in the persisted all_reviews.json,
\* in every state the disk can be left in.
C1_ScrapedSlugIsPersisted ==
    \A s \in ScrapedOnDisk :
        /\ disk.reviews[s].exists
        /\ SeqToSet(StoredRecs(disk.reviews[s])) \subseteq SeqToSet(CombinedOnDisk)

\* C2: when a run finishes after a kill, every rerun having resumed, the
\* records of every app whose scrapeAppReviews had returned are in the final
\* all_reviews.json and in the result of the run.
C2_CompletedSurvivesKill ==
    (run.pc = "done" /\ hist.kills > 0 /\ hist.allResume) =>
        \A s \in Slugs :
            hist.completed[s] # None =>
                /\ SeqToSet(hist.completed[s][1]) \subseteq SeqToSet(CombinedOnDisk)
                /\ SeqToSet(hist.completed[s][1]) \subseteq SeqToSet(run.allReviews)

\* C3: in a run with resume, the apps a page was fetched for are apps of the
\* entity list whose slug was not in scraped_app_slugs.json when the run began.
C3_ResumeFetchesOnlyUnscraped ==
    run.resume =>
        hist.fetched \subseteq (SeqToSet(AppsOnDisk) \ hist.scrapedAtStart)

C3_Witness ==
    /\ run.resume
    /\ run.pc = "done"
    /\ AppsOnDisk = <<"a", "b", "c">>
    /\ hist.scrapedAtStart = {"a", "b"}
    /\ hist.fetched = {"c"}

\* C4: a run with resume that follows a run which finished fetches nothing
\* and leaves all_reviews.json as that run left it.
C4_SecondRunIdempotent ==
    (hist.prevDone /\ run.resume) =>
        /\ hist.fetched = {}
        /\ disk.combined = hist.combinedAtStart

C4_Witness ==
    /\ hist.prevDone
    /\ run.resume
    /\ run.pc = "done"
    /\ Len(run.allReviews) > 0
    /\ disk.combined = hist.combinedAtStart

\* the least k with k * reviewsPerPage >= t
PagesFor(t) == CHOOSE k \in 0..t : k * 10 >= t /\ (k = 0 \/ (k - 1) * 10 < t)

YieldsOn(cfg, pages) == \A p \in pages : BatchSize(cfg, p) > 0

\* C5 as stated: with a count T read, at most ceil(T / 10) pages are
\* extracted, and exactly that many once the call has returned if each of
\* them yields records.
C5_StopsAtCountAsStated ==
    ap.totalCount # None =>
        LET k == PagesFor(ap.totalCount[1])
        IN  /\ ap.extracted <= k
            /\ (ap.pc = "done" /\ YieldsOn(remote[ap.slug], 1..k)) => ap.extracted = k

\* C5 amended: ... exactly that many if each of them yields records and each
\* page before the last shows a next link; a next link on the last changes nothing.
C5_StopsAtCount ==
    ap.totalCount # None =>
        LET k == PagesFor(ap.totalCount[1])
        IN  /\ ap.extracted <= k
            /\ (/\ ap.pc = "done"
                /\ YieldsOn(remote[ap.slug], 1..k)
                /\ (1..(k - 1)) \subseteq remote[ap.slug].nextOn) => ap.extracted = k

C5_Witness ==
    /\ ap.pc = "done"
    /\ ap.totalCount = Some(25)
    /\ ap.extracted = 3
    /\ Len(ap.allReviews) = 6
    /\ 3 \in remote[ap.slug].nextOn

\* C6: once a page yielded an empty batch the call has returned at that page:
\* nothing after it was navigated to or extracted, and the next link is only
\* looked for on a page with records that the count does not end.
C6_EmptyBatchStops ==
    /\ ap.emptyAt > 0 =>
        /\ ap.pc = "done"
        /\ ap.pageNum = ap.emptyAt
        /\ ap.lastNav <= ap.emptyAt
        /\ ap.extracted = ap.emptyAt
        /\ ap.emptyAt \notin ap.nextAsked
    /\ \A p \in ap.nextAsked :
        /\ BatchSize(remote[ap.slug], p) > 0
        /\ ap.totalCount # None => p < PagesFor(ap.totalCount[1])

C6_Witness ==
    /\ ap.emptyAt = 2
    /\ ap.totalCount = Some(30)
    /\ 2 \in remote[ap.slug].nextOn
    /\ Len(ap.allReviews) = 2

\* every failure so far: the operation has never succeeded in this call
AlwaysFailed == rt.state # "idle" /\ rt.calls = Len(rt.errs)

\* C8: against an operation that always fails, retry with maxRetries = n
\* calls it n times and no more, waits baseDelayMs * 2^(k-1) after the k-th
\* failure for k < n and not after the n-th, and throws the n-th error.
C8_RetryExhausted ==
    AlwaysFailed =>
        /\ rt.calls <= rt.maxRetries
        /\ Len(rt.waits) = (IF rt.state = "calling" THEN rt.calls
                            ELSE IF rt.state = "waiting" THEN rt.calls
                            ELSE rt.calls - 1)
        /\ \A k \in 1..Len(rt.waits) : rt.waits[k] = rt.baseDelayMs * 2^(k - 1)
        /\ rt.state = "thrown" <=> rt.calls = rt.maxRetries
        /\ rt.state = "thrown" =>
            /\ Len(rt.waits) = rt.maxRetries - 1
            /\ rt.thrown = rt.errs[rt.maxRetries]

C8_Witness ==
    /\ rt.state = "thrown"
    /\ rt.maxRetries = 3
    /\ rt.baseDelayMs = 1000
    /\ rt.calls = 3
    /\ rt.waits = <<1000, 2000>>
    /\ rt.errs = <<"TimeoutError", "TimeoutError", "net::ERR">>
    /\ rt.thrown = "net::ERR"

ProcessedPersisted ==
    \A s \in hist.processed :
        /\ disk.reviews[s].exists
        /\ StoredRecs(disk.reviews[s]) = hist.returned[s][1]
        /\ SeqToSet(hist.returned[s][1]) \subseteq SeqToSet(CombinedOnDisk)
        /\ s \in ScrapedOnDisk

CsvOfCombined ==
    /\ disk.csv.exists
    /\ disk.csv.text = <<HeaderRow>> \o MapSeq(EncRec, CombinedOnDisk)

\* C9 as stated: after a run that finished, every app processed in it has its
\* file with exactly the records returned, those records in all_reviews.json,
\* its slug in scraped_app_slugs.json, and all_reviews.csv holds the header
\* and one row per combined record.
C9_EndToEndAsStated ==
    run.pc = "done" => (ProcessedPersisted /\ CsvOfCombined)

\* C9 amended: ... and all_reviews.csv holds the header and one row per
\* combined record when there is a record; with none, the run writes no CSV.
C9_EndToEnd ==
    run.pc = "done" =>
        /\ ProcessedPersisted
        /\ Len(CombinedOnDisk) > 0 => CsvOfCombined
        /\ Len(CombinedOnDisk) = 0 => disk.csv = hist.csvAtStart

C9_Witness ==
    /\ run.pc = "done"
    /\ AppsOnDisk = <<"a">>
    /\ hist.processed = {"a"}
    /\ StoredRecs(disk.reviews["a"]) = <<<<"a", 1, 1>>, <<"a", 1, 2>>>>
    /\ ap.pc = "idle"
    /\ CombinedOnDisk = <<<<"a", 1, 1>>, <<"a", 1, 2>>>>
    /\ ScrapedOnDisk = {"a"}
    /\ Len(disk.csv.text) = 3

\* the pages the pagination is to visit: page 1, then each next page while the
\* page before it shows a next link and, after page 1, brought a new slug
RECURSIVE PagesToVisit(_, _, _, _)
PagesToVisit(listing, nextOn, p, seen) ==
    IF p > Len(listing) THEN <<>>
    ELSE LET new == SeqToSet(listing[p]) \ seen
         IN  IF (new = {} /\ p > 1) \/ p \notin nextOn THEN <<listing[p]>>
             ELSE <<listing[p]>> \o PagesToVisit(listing, nextOn, p + 1, seen \cup new)

RECURSIVE Concat(_)
Concat(ss) == IF ss = <<>> THEN <<>> ELSE Head(ss) \o Concat(Tail(ss))

\* s without the later occurrences of each element
FirstSeen(q) ==
    LET F[i \in 0..Len(q)] ==
            IF i = 0 THEN <<>>
            ELSE IF \E j \in 1..(i - 1) : q[j] = q[i] THEN F[i - 1]
            ELSE Append(F[i - 1], q[i])
    IN  F[Len(q)]

\* C7: a discovery that ran returns and stores the slugs of the visited
\* listing pages, each once, in first-seen order, none lost.
C7_DiscoveryKeepsEverySlug ==
    (dv.pc = "done" /\ dv.ran) =>
        LET expected == FirstSeen(Concat(PagesToVisit(dv.listing, dv.nextOn, 1, {})))
        IN  /\ dv.result = expected
            /\ AppsOnDisk = expected

\* C10 as stated: loadCheckpoint never raises; it returns the stored value
\* of a file written whole and the default for an absent or unreadable file.
C10_LoadNeverRaisesAsStated ==
    ld.pc # "idle" =>
        /\ ld.pc = "returned"
        /\ ld.result = IF ld.intact # None THEN ld.intact[1] ELSE ld.defaultValue

\* C10 amended: loadCheckpoint returns the stored value of a file written
\* whole, returns the default without raising when the file is absent, and
\* raises the parse error when the file exists but holds no valid JSON.
C10_LoadCheckpoint ==
    ld.pc # "idle" =>
        /\ (ld.file.exists /\ ld.intact # None) =>
                (ld.pc = "returned" /\ ld.result = ld.intact[1])
        /\ ~ld.file.exists => (ld.pc = "returned" /\ ld.result = ld.defaultValue)
        /\ (ld.file.exists /\ ld.intact = None) => ld.pc = "raised"

C10_Witness ==
    /\ ld.pc = "raised"
    /\ ld.file.exists
    /\ ld.file.text = <<LB, EncStr("a"), COMMA>>
    /\ ld.defaultValue = <<>>

\* the list apps.json holds is readable and not empty
AppsCheckpointHeld ==
    LET lc == loadCheckpoint(disk.apps, <<>>) IN ~lc.raised /\ Len(lc.value) > 0

AppsCheckpointNone ==
    LET lc == loadCheckpoint(disk.apps, <<>>) IN ~lc.raised /\ Len(lc.value) = 0

\* C11: discoverApps called with resume on a non-empty apps.json returns the
\* list the file holds in one step, with no browser launched, no page
\* fetched and apps.json left as it was; called on an absent or empty
\* apps.json, or without resume, it launches the browser and runs.
C11_ResumeSkipsDiscovery ==
    /\ [][(dv.pc = "start" /\ dv.resume /\ AppsCheckpointHeld) =>
            (/\ dv'.pc = "done"
             /\ dv'.result = AppsOnDisk
             /\ disk' = disk
             /\ rt' = RtIdle
             /\ ~dv'.browserOpen /\ ~dv'.ran /\ dv'.cur = 0)]_vars
    /\ [][(dv.pc = "start" /\ (AppsCheckpointNone \/ ~dv.resume)) =>
            dv'.pc = "launch"]_vars
    /\ [][dv.pc = "launch" => (dv'.browserOpen /\ dv'.ran)]_vars

C11_Witness ==
    /\ dv.pc = "done"
    /\ dv.resume
    /\ ~dv.ran
    /\ dv.result = <<"c">>
    /\ disk.apps = saveCheckpoint(<<EncApp("c")>>)
    /\ dv.listing = <<<<"a", "b">>, <<"b", "c">>>>

\* how a run of main() ended, read off its final state
Ended == run.pc \in {"done", "exit1"}

AppsUnreadable == loadCheckpoint(disk.apps, <<>>).raised

DiscoveryCalled == ~run.reviewsOnly /\ ~AppsUnreadable

DiscoveryZero == DiscoveryCalled /\ dv.pc = "done" /\ Len(dv.result) = 0

DiscoveryFailed == DiscoveryCalled /\ dv.pc = "threw"

NothingToProcess == run.reviewsOnly /\ ~AppsUnreadable /\ Len(AppsOnDisk) = 0

Phase2Entered ==
    /\ ~AppsUnreadable
    /\ ~DiscoveryZero
    /\ ~DiscoveryFailed
    /\ ~NothingToProcess
    /\ run.reviewsOnly \/ ~run.discoverOnly

\* a fetch of the collection failed on its last attempt
EntityFailed == Phase2Entered /\ rt.state = "thrown"

ProgressUnreadable ==
    /\ Phase2Entered
    /\ run.resume
    /\ \/ loadCheckpoint(disk.scraped, <<>>).raised
       \/ loadCheckpoint(disk.combined, <<>>).raised

\* C12 as stated: the exit status is non-zero exactly when discovery yields no
\* app or the collection has no app to process; it is zero in every other
\* case, also when the collection of an app failed after its retries.
C12_ExitStatusAsStated ==
    Ended => (run.exit # 0 <=> (DiscoveryZero \/ NothingToProcess))

\* C12 amended: the exit status is non-zero exactly when discovery yields no
\* app, the collection has no app to process, or an error leaves main: a
\* fetch that failed on its last attempt, in discovery or in the collection
\* of any app, or a checkpoint file that cannot be parsed.
C12_ExitStatus ==
    Ended =>
        /\ run.exit # 0 <=> \/ DiscoveryZero
                            \/ NothingToProcess
                            \/ DiscoveryFailed
                            \/ EntityFailed
                            \/ AppsUnreadable
                            \/ ProgressUnreadable
        /\ run.exit = 0 <=> run.pc = "done"

C12_Witness ==
    /\ run.pc = "exit1"
    /\ run.exit = 1
    /\ ~run.reviewsOnly
    /\ dv.result = <<"a", "b">>
    /\ hist.processed = {"a"}
    /\ ap.pc = "threw"
    /\ ap.slug = "b"
    /\ ScrapedOnDisk = {"a"}

\* the records of a sequence that belong to slug, and those that do not
RecsOf(recs, slug) == LET Keep(r) == r[1] = slug IN FilterSeq(recs, Keep)
RecsNotOf(recs, slug) == LET Keep(r) == r[1] # slug IN FilterSeq(recs, Keep)

\* a write of all_reviews.json that ran to its end changed the file
CombinedRewritten == run'.pc # "killed" /\ disk'.combined # disk.combined

\* C13 as stated: in every run mode, no rewrite of all_reviews.json leaves
\* fewer records in the file than it held before.
C13_NeverShrinksAsStated ==
    [][CombinedRewritten =>
        Len(StoredRecs(disk'.combined)) >= Len(StoredRecs(disk.combined))]_vars

\* C13 amended: in a run with resume, a rewrite of all_reviews.json keeps, in
\* order, every record the file held for the other apps and holds for the app
\* just collected the records its pagination returned, so the file does not
\* shrink when that app had no record in it; the final write changes nothing.
C13_ResumeKeepsOthers ==
    [][(run.resume /\ CombinedRewritten) =>
        LET old == StoredRecs(disk.combined)
            new == StoredRecs(disk'.combined)
            slug == run.toProcess[run.i]
        IN  /\ run.pc = "save3"
            /\ RecsNotOf(new, slug) = RecsNotOf(old, slug)
            /\ RecsOf(new, slug) = hist.returned[slug][1]
            /\ RecsOf(old, slug) = <<>> => Len(new) >= Len(old)]_vars

C13_Witness ==
    /\ run.resume
    /\ run.pc = "app"
    /\ hist.scrapedAtStart = {"a"}
    /\ StoredRecs(hist.combinedAtStart) = RecsOfA
    /\ hist.processed = {"b"}
    /\ CombinedOnDisk = RecsOfA \o <<<<"b", 1, 1>>>>

\* the run took the fast path of scrapeAllReviews
TookFastPath == Len(run.apps) > 0 /\ run.toProcess = <<>> /\ run.resume

OutputsHold(recs) ==
    /\ disk.csv.exists
    /\ disk.csv.text = <<HeaderRow>> \o MapSeq(EncRec, recs)
    /\ disk.combined.exists
    /\ StoredRecs(disk.combined) = recs

FreshDiscovery(listing, nextOn) ==
    LET got == collectAllApps(listing, nextOn, 1, <<>>)
    IN  UniqueBySlug(IF Len(got.apps) = 0 THEN extractAppsFromPage(listing, got.cur)
                     ELSE got.apps)

\* C15: a full run with --no-resume in which no fetch fails does what the
\* remote source alone determines, whatever apps.json, scraped_app_slugs.json
\* and all_reviews.json held before: it discovers and stores the apps of the
\* listing, fetches and collects exactly those apps, and leaves the files it
\* writes with the records their pagination returned.
C15_NoResumeFromScratch ==
    (Ended /\ ~run.resume /\ ~run.reviewsOnly /\ rt.state # "thrown") =>
        LET E == FreshDiscovery(dv.listing, dv.nextOn)
            Returned(s) == hist.returned[s][1]
        IN  /\ dv.ran
            /\ dv.result = E
            /\ AppsOnDisk = E
            /\ (Len(E) > 0 /\ ~run.discoverOnly) =>
                  /\ hist.fetched = SeqToSet(E)
                  /\ hist.processed = SeqToSet(E)
                  /\ ScrapedOnDisk = SeqToSet(E)
                  /\ \A s \in SeqToSet(E) : StoredRecs(disk.reviews[s]) = Returned(s)
                  /\ CombinedOnDisk = Concat(MapSeq(Returned, E))

\* the app whose five steps scrapeAllReviews is carrying out
Current == run.toProcess[run.i]

\* C16: the steps for an app run in the order merge, mark, persist the
\* scraped set, persist the app's file, persist all_reviews.json, after its
\* pagination returned; and between any two of them the persisted state does
\* not yet mark an app scraped that was not marked when the run began.
C16_StepsInOrderCrashSafe ==
    /\ run.pc \in {"save2", "save3"} =>
          /\ hist.returned[Current] = Some(run.reviews)
          /\ MapHas(run.bySlug, Current)
          /\ MapGet(run.bySlug, Current) = run.reviews
          /\ Current \in SeqToSet(run.scrapedSet)
    /\ run.pc = "save3" => StoredRecs(disk.reviews[Current]) = run.reviews
    /\ (run.pc \in {"save2", "save3"} /\ Current \notin hist.scrapedAtStart) =>
          Current \notin ScrapedOnDisk

\* scrapeAllReviews is entered with a non-empty list of apps whose slugs are
\* all in the scraped set it loads
AllAlreadyScraped ==
    /\ run.pc = "sar"
    /\ run.resume
    /\ Len(run.apps) > 0
    /\ ~loadCheckpoint(disk.scraped, <<>>).raised
    /\ SeqToSet(run.apps) \subseteq SeqToSet(StoredStrs(disk.scraped))

\* C17: entered with every app already scraped, scrapeAllReviews ends in one
\* step that returns what all_reviews.json holds (nothing when the file is
\* absent; the parse error when it is unreadable), launches no browser,
\* fetches no page and writes no file.
C17_FastPathFrame ==
    [][(AllAlreadyScraped /\ run'.pc # "killed") =>
        /\ disk' = disk
        /\ ap' = ap
        /\ rt' = rt
        /\ hist'.fetched = hist.fetched
        /\ ~run'.browserOpen
        /\ IF loadCheckpoint(disk.combined, <<>>).raised
           THEN run'.pc = "exit1"
           ELSE /\ run'.pc \in {"csv", "done"}
                /\ run'.allReviews = StoredRecs(disk.combined)]_vars

C17_Witness ==
    /\ run.pc = "csv"
    /\ TookFastPath
    /\ AppsOnDisk = <<"a", "b", "c">>
    /\ ScrapedOnDisk = {"a", "b", "c"}
    /\ run.allReviews = RecsOfA \o <<<<"b", 1, 1>>>>
    /\ hist.fetched = {}
    /\ ~run.browserOpen
    /\ disk.combined = hist.combinedAtStart

\* the fetch of the app being collected failed on its last attempt
FetchGaveUp == rt.state = "thrown"

\* C18: when a fetch for app N fails on its last attempt, the last error
\* leaves scrapeAppReviews and then scrapeAllReviews as it was thrown; from
\* the call of scrapeAppReviews for N on no file is written, so N is not
\* added to scraped_app_slugs.json, and the apps completed earlier in the run
\* keep their files, their records in all_reviews.json and their slugs.
C18_FailureLeavesDiskUntouched ==
    /\ [](FetchGaveUp =>
            /\ ap.pc = "threw"
            /\ run.pc \in {"app", "exit1"}
            /\ rt.calls = DefaultMaxRetries
            /\ rt.thrown = rt.errs[Len(rt.errs)]
            /\ ap.slug \notin hist.processed
            /\ ap.slug \notin hist.scrapedAtStart => ap.slug \notin ScrapedOnDisk
            /\ ProcessedPersisted)
    /\ [][(run.pc = "app" /\ run'.pc \in {"app", "exit1"}) => disk' = disk]_vars
    /\ [][(FetchGaveUp /\ run.pc = "app" /\ run'.pc # "killed") =>
            (run'.pc = "exit1" /\ rt' = rt /\ ap' = ap /\ ~run'.browserOpen)]_vars

C18_Witness ==
    /\ FetchGaveUp
    /\ run.pc = "exit1"
    /\ run.resume
    /\ ap.slug = "b"
    /\ ap.pageNum = 0
    /\ hist.processed = {"a"}
    /\ ScrapedOnDisk = {"a"}
    /\ CombinedOnDisk = RecsOfA
    /\ ~disk.reviews["b"].exists
    /\ rt.thrown = "net::ERR"

\* C19: every browser a phase launched has been closed when the phase is
\* left, by a return or by an error of any step after the launch; no run
\* that ends (other than by a kill) leaves a browser open.
C19_BrowserAlwaysClosed ==
    /\ run.pc \in {"done", "exit1", "csv", "json"} => ~run.browserOpen
    /\ dv.pc \in {"done", "threw"} => ~dv.browserOpen

\* a page.goto is in flight, or retry() is waiting to issue it again
FetchInFlight == rt.state \in {"calling", "waiting"}

\* C20: during the collection a page handle is open only for the app being
\* collected, inside the loop of scrapeAllReviews with the browser open; it
\* is closed when scrapeAppReviews is left, by a return or by an error, so the
\* next app's handle is opened with none open; and a fetch is in flight only
\* on that one handle.
C20_OnePageOneFetch ==
    /\ [](/\ ap.pc \in {"done", "threw", "idle", "newPage"} => ~ap.pageOpen
          /\ ap.pageOpen =>
                (run.pc = "app" /\ run.browserOpen /\ ap.slug = Current)
          /\ FetchInFlight => (ap.pageOpen /\ ap.pc = "goto"))
    /\ [][ap'.pc = "newPage" => (~ap.pageOpen /\ ~FetchInFlight)]_vars
    /\ [][(ap.pageOpen /\ ap'.pageOpen) => ap'.slug = ap.slug]_vars

C20_Witness ==
    /\ ap.pageOpen
    /\ ap.slug = "b"
    /\ run.i = 2
    /\ hist.processed = {"a"}
    /\ FetchInFlight
    /\ rt.attempt = 2

\* a page.goto has resolved and the delay that follows it is not yet taken
DelayOwed == ap.pc = "delay" \/ dv.pc = "delay"

\* a page.goto resolves in this step
FetchSucceeds == rt.state = "calling" /\ rt'.state = "returned"

\* C21: a fetch succeeds only when no delay is owed and leaves one owed; an
\* owed delay is cleared only by taking it; and a page's reviews or apps are
\* extracted only when the delay after its fetch has been taken. So a delay
\* lies between any two consecutive successful fetches of a run, within an
\* app, across apps, in discovery and from discovery to the collection.
C21_DelayBetweenFetches ==
    /\ [][FetchSucceeds => (~DelayOwed /\ DelayOwed')]_vars
    /\ [][(DelayOwed /\ ~DelayOwed') =>
            \/ (ap.pc = "delay" /\ ap'.delays = ap.delays + 1)
            \/ (dv.pc = "delay" /\ dv'.pc = "collect")]_vars
    /\ [][ap'.extracted > ap.extracted =>
            (~DelayOwed /\ ap.delays = ap.lastNav /\ ap.lastNav = ap.pageNum)]_vars
    /\ [][(dv.pc # "done" /\ dv'.pc = "done" /\ dv'.ran) => dv.pc = "collect"]_vars
    /\ [](ap.delays <= ap.lastNav /\ ap.lastNav <= ap.delays + 1)

C21_Witness ==
    /\ dv.ran
    /\ dv.pc = "done"
    /\ run.pc = "app"
    /\ run.i = 2
    /\ ap.slug = "b"
    /\ ap.pc = "count"
    /\ ap.delays = 1
    /\ hist.processed = {"a"}

\* C22: the discovery that ran visited at most SEARCH.maxPages listing
\* pages, SEARCH.maxPages being a defined positive number, and under it the
\* pagination did go on to page 2 when page 1 brought apps and a next link.
C22_DiscoveryBoundedByMaxPages ==
    (dv.pc = "done" /\ dv.ran) =>
        /\ JsLe(1, SEARCH_maxPages)
        /\ JsLe(dv.cur, SEARCH_maxPages)
        /\ (Len(dv.listing[1]) > 0 /\ 1 \in dv.nextOn) => dv.cur >= 2

\* the slugs page q of the listing shows that no earlier page showed
NewAt(listing, q) ==
    SeqToSet(extractAppsFromPage(listing, q)) \
        UNION {SeqToSet(extractAppsFromPage(listing, j)) : j \in 1..(q - 1)}

\* the rule of the pagination: from page q the next page is fetched
GoesOn(listing, nextOn, q) ==
    q \in nextOn /\ ~(q > 1 /\ NewAt(listing, q) = {})

\* C23: the discovery that ran went on from every page before the one it
\* ended on, each showing a next link and, after page 1, a new slug, and the
\* page it ended on shows no next link or, after page 1, no new slug.
C23_NextPageIffAffordance ==
    (dv.pc = "done" /\ dv.ran) =>
        /\ \A q \in 1..(dv.cur - 1) : GoesOn(dv.listing, dv.nextOn, q)
        /\ ~GoesOn(dv.listing, dv.nextOn, dv.cur)

CountUnknown == getTotalReviewCount(remote["a"]) = None

\* C24: on an app that shows no total count, scrapeAppReviews extracts at
\* most 500 pages, navigates to no page beyond the 500th, and every call
\* comes to its return or to the error of an exhausted retry.
C24_FallbackCapTerminates ==
    /\ [](CountUnknown =>
            (ap.extracted <= 500 /\ ap.lastNav <= 500 /\ Len(ap.allReviews) <= 500))
    /\ <>(ap.pc \in {"done", "threw"})

C24_Witness ==
    /\ CountUnknown
    /\ ap.pc = "done"
    /\ ap.totalPages = None
    /\ ap.extracted = 500
    /\ Len(ap.allReviews) = 500
    /\ 500 \in remote["a"].nextOn
    /\ BatchSize(remote["a"], 501) > 0

\* the records scrapeAllReviews loaded from all_reviews.json when it began
LoadedRecs == IF run.resume THEN StoredRecs(hist.combinedAtStart) ELSE <<>>

SlugOf(r) == r[1]

\* the first k apps of toProcess
FirstProcessed(k) == SubSeq(run.toProcess, 1, k)

\* the slugs in the order they first entered the map: those of the loaded
\* records, then the apps processed
EntityOrder(k) == FirstSeen(MapSeq(SlugOf, LoadedRecs) \o FirstProcessed(k))

\* the concatenation, in that order, of each app's records: those its
\* pagination returned in this run, else those loaded
ExpectedFlat(k) ==
    LET Latest(s) == IF s \in SeqToSet(FirstProcessed(k)) THEN hist.returned[s][1]
                     ELSE RecsOf(LoadedRecs, s)
    IN  Concat(MapSeq(Latest, EntityOrder(k)))

\* C25: all_reviews.json after the k-th app, and the sequence
\* scrapeAllReviews returns, are the concatenation of the apps' record lists,
\* each contiguous and in extraction order, apps in the order their slug
\* first entered the map; the JSON output holds the returned sequence in order.
C25_FlatIsOrderedConcatenation ==
    /\ (run.pc \in {"app", "close"} /\ run.i >= 2) =>
          CombinedOnDisk = ExpectedFlat(run.i - 1)
    /\ (run.pc \in {"csv", "json", "done"} /\ ~TookFastPath) =>
          run.allReviews = ExpectedFlat(Len(run.toProcess))
    /\ (run.pc = "done" /\ Len(run.allReviews) > 0) =>
          StoredRecs(disk.combined) = run.allReviews

C25_Witness ==
    /\ run.pc = "done"
    /\ run.resume
    /\ hist.processed = {"b", "c"}
    /\ MapSeq(SlugOf, LoadedRecs) = <<"a", "a", "b", "b", "c", "c">>
    /\ EntityOrder(2) = <<"a", "b", "c">>
    /\ CombinedOnDisk = LoadedRecs

\* C26: a delay(minMs, maxMs) with minMs <= maxMs sleeps a whole number of
\* milliseconds between minMs and maxMs, both included, whatever Math.random
\* returns.
C26_DelayWithinBounds ==
    dl.pc \in {"sleeping", "resolved"} =>
        /\ dl.ms \in Nat
        /\ dl.minMs <= dl.ms
        /\ dl.ms <= dl.maxMs

C26_Witness ==
    /\ dl.pc = "resolved"
    /\ dl.minMs = 3000
    /\ dl.maxMs = 5000
    /\ dl.rand = <<9999, 10000>>
    /\ dl.ms = 5000

NoDup(s) == Cardinality(SeqToSet(s)) = Len(s)

\* the call collects again an app whose records the loaded file already held
CollectedAgain(slug) ==
    /\ run.resume
    /\ slug \in hist.processed
    /\ RecsOf(StoredRecs(hist.combinedAtStart), slug) # <<>>

\* C27: all_reviews.json never holds two copies of one app's reviews: once
\* the file is rewritten after an app was collected (again or for the first
\* time, its slug missing from the scraped set or named by startFromSlug),
\* the file's records of that slug are exactly those of this collection, and
\* no record is in the file twice.
C27_RecollectionReplaces ==
    /\ \A slug \in hist.processed :
          RecsOf(CombinedOnDisk, slug) = hist.returned[slug][1]
    /\ NoDup(CombinedOnDisk)

C27_Witness ==
    /\ run.startFromSlug = "a"
    /\ "a" \in hist.scrapedAtStart
    /\ CollectedAgain("a")
    /\ RecsOf(StoredRecs(hist.combinedAtStart), "a") = RecsOfA
    /\ RecsOf(CombinedOnDisk, "a") = <<<<"a", 1, 1>>>>

\* discoverApps reached its return with the list it stored
DiscoveryCompleted ==
    /\ dv.pc = "collect"
    /\ dv'.pc = "done"
    /\ disk'.apps = saveCheckpoint(MapSeq(EncApp, dv'.result))

\* C28: apps.json is written once per discovery, when pagination and
\* deduplication are done: apps.json changes only in the step in which
\* discoverApps completes, so a discovery that fails or is killed before
\* that leaves the file as it was.
C28_WrittenOnlyAtCompletion == [][disk'.apps # disk.apps => DiscoveryCompleted]_vars

\* C29: when fn succeeds on attempt k <= maxRetries, retry returns the value
\* of that call, has called fn exactly k times, has waited once after each
\* of the k - 1 failures before it and not after the success, and calls fn
\* no more.
C29_SuccessOnAttemptK ==
    /\ [](rt.state = "returned" =>
            /\ rt.result \in FnResults
            /\ rt.calls = rt.attempt
            /\ rt.calls <= rt.maxRetries
            /\ Len(rt.errs) = rt.calls - 1
            /\ Len(rt.waits) = rt.calls - 1)
    /\ [][(rt.state = "calling" /\ rt'.state = "returned") =>
            (rt'.calls = rt.calls + 1 /\ rt'.waits = rt.waits)]_vars
    /\ [][rt.state = "returned" => rt'.calls = rt.calls]_vars

C29_Witness ==
    /\ rt.state = "returned"
    /\ rt.maxRetries = 4
    /\ rt.calls = 3
    /\ rt.errs # <<>>
    /\ rt.waits = <<1000, 2000>>
    /\ rt.result = "r1"

====
